---- MODULE Spec2Model ----
(***************************************************************************)
(* Model of the DINO pretraining orchestrator, src/dino/patch.py main():   *)
(* one process per device, start-up (process group, run identifier,        *)
(* output directories, config file, networks, snapshot restore) followed   *)
(* by the epoch loop (training, snapshot, tuning, early stopping, periodic *)
(* save, log line, barrier) and teardown.  The file system is shared and   *)
(* survives a restart of the job by its supervisor.  Two parts are also    *)
(* studied on their own: the early-stopping controller main() constructs   *)
(* and calls once per epoch (ESSpec), and one call of the augmentation     *)
(* objects of src/dino/data/augmentations.py (AugSpec).                    *)
(***************************************************************************)
EXTENDS Integers, Sequences, FiniteSets, TLC

(* ------------------------------ bounds -------------------------------- *)
MaxProcs == 2
MaxEpochs == 2
MaxRestarts == 1
\* calls of the early-stopping controller studied on its own
MaxEvals == 5
\* crops.local_crops_number of the augmentation objects studied
MaxLocalCrops == 4

RunIds == {"runA", "runB"}
WarmupValues == {0, MaxEpochs + 1}
SaveEveryValues == {0, 2}
TuneEveryValues == {0, 1, 2}
PatienceValues == {1}
MinEpochValues == {0}
MinMaxValues == {"max"}
Metrics == {0, 1}
\* tuning metric values in hundredths
ESMetrics == {50, 53, 54, 55, 60}
ESPatienceValues == {1, 3}
ESMinEpochValues == {0, 2}
ESMinMaxValues == {"max", "min"}
\* Path(cfg.train.output_dir, run_id): "" names the output directory itself
Dirs == RunIds \cup {""}

(* ------------------------------ values -------------------------------- *)
\* absent file / Python None for a snapshot mapping
NoSnap == [missing |-> TRUE]
\* absent run directory
NoDir == [exists |-> FALSE]
\* before the networks are built
Unbuilt ==
    [student |-> -1, teacher |-> -1, optimizer |-> -1, dino_loss |-> -1,
     fp16_scaler |-> -1]

\* a run directory right after lines 103-108 created it; `taken` is history:
\* the state of the coordinating process when it built the snapshot that
\* is now snapshots/latest.pt
FreshDir(withFeatures) ==
    [exists |-> TRUE, snapshots |-> TRUE, features |-> withFeatures,
     config |-> FALSE, latest |-> NoSnap, best |-> NoSnap,
     epoch_files |-> << >>, log |-> << >>, taken |-> Unbuilt]

\* freshly built student, teacher (same weights), optimizer, loss module
\* and, under mixed precision, gradient scaler; -1 is Python None
BuildState(c) ==
    [student |-> 0, teacher |-> 0, optimizer |-> 0, dino_loss |-> 0,
     fp16_scaler |-> IF c.use_fp16 THEN 0 ELSE -1]

\* one epoch of training: gradient step on the student, EMA update of the
\* teacher, optimizer state, center buffer of the loss, scaler
TrainState(s) ==
    [student |-> s.student + 1, teacher |-> s.teacher + 1,
     optimizer |-> s.optimizer + 1, dino_loss |-> s.dino_loss + 1,
     fp16_scaler |-> IF s.fp16_scaler = -1 THEN -1 ELSE s.fp16_scaler + 1]

\* the snapshot mapping of lines 375-383
MakeSnapshot(e, s) ==
    LET base == [epoch |-> e, student |-> s.student, teacher |-> s.teacher,
                 optimizer |-> s.optimizer, dino_loss |-> s.dino_loss]
    IN  IF s.fp16_scaler # -1
        THEN base @@ [fp16_scaler |-> s.fp16_scaler]
        ELSE base

\* variant of LoadState that forgets the scaler (lines 300-301 dropped)
LoadStateWithoutScaler(s, snap) ==
    [student |-> snap.student, teacher |-> snap.teacher,
     optimizer |-> snap.optimizer, dino_loss |-> snap.dino_loss,
     fp16_scaler |-> s.fp16_scaler]

\* variant of LoadState that forgets the loss module (line 299 dropped)
LoadStateWithoutLoss(s, snap) ==
    [student |-> snap.student, teacher |-> snap.teacher,
     optimizer |-> snap.optimizer, dino_loss |-> s.dino_loss,
     fp16_scaler |-> IF s.fp16_scaler # -1 THEN snap.fp16_scaler ELSE -1]

\* lines 296-301: load every component from the snapshot
LoadState(s, snap) ==
    [student |-> snap.student, teacher |-> snap.teacher,
     optimizer |-> snap.optimizer, dino_loss |-> snap.dino_loss,
     fp16_scaler |-> IF s.fp16_scaler # -1 THEN snap.fp16_scaler ELSE -1]

\* a checkpoint file a user may point train.resume_from_checkpoint at,
\* written by another run after its epoch 0
ExternalCheckpoint(fp16) ==
    MakeSnapshot(0, [student |-> 7, teacher |-> 7, optimizer |-> 7,
                     dino_loss |-> 7, fp16_scaler |-> IF fp16 THEN 7 ELSE -1])

(* --------------------------- configuration ---------------------------- *)
\* no data augmentation object is under study
NoAugmentation == [pc |-> "none"]

\* line 239: the number of crops the loss is built for
crops_number(local_crops_number) == local_crops_number + 2

Configs ==
    { c \in [world_size : 1..MaxProcs,
             resume : BOOLEAN,
             resume_from_checkpoint : {NoSnap, ExternalCheckpoint(TRUE),
                                       ExternalCheckpoint(FALSE)},
             epochs : {MaxEpochs},
             warmup_epochs : WarmupValues,
             save_every : SaveEveryValues,
             tune_every : TuneEveryValues,
             tune_enable : BOOLEAN,
             save_features : {TRUE},
             use_fp16 : BOOLEAN,
             patience : PatienceValues,
             min_epoch : MinEpochValues,
             min_max : MinMaxValues] :
        \* train.resume_from_checkpoint names a checkpoint written under
        \* the same precision, or (single process, resume set) a missing file
        /\ (c.world_size > 1 \/ ~c.resume) => c.resume_from_checkpoint # NoSnap
        /\ c.resume_from_checkpoint # NoSnap =>
               c.resume_from_checkpoint = ExternalCheckpoint(c.use_fp16)
        \* tune.enable only matters when tuning runs
        /\ c.tune_every = 0 => c.tune_enable
        \* mixed precision is varied on the configurations without tuning
        /\ c.tune_every # 0 => ~c.use_fp16 }

VARIABLES
    cfg,            \* the configuration, fixed for the job and its restarts
    fs,             \* file system: run identifier -> run directory
    pc,             \* position of each process in main()
    error,          \* exception that ended a process, "none" otherwise
    pg,             \* process group per process: "none", "init", "destroyed"
    run_id,         \* run identifier held by each process
    bcast,          \* object list broadcast by rank 0, "" before it is sent
    state,          \* student, teacher, optimizer, loss, scaler per process
    epochs_run,     \* first epoch of the loop
    epoch,          \* loop variable
    snapshot,       \* snapshot mapping built in the current epoch
    stop,           \* early-stop flag of the loop
    early_stopping, \* the early-stopping controller of each process
    restarts,       \* number of restarts by the supervisor
    writers,        \* history: <<rank, operation>> of every side effect
    restored,       \* history: epoch read from the snapshot restored, or -1
    trained,        \* history: epochs trained by each process in this run
    prev_latest,    \* history: the failed run had written latest.pt
    calls,          \* history: epoch and results of every controller call
    source,         \* history: what each process restored its state from
    aug             \* a data augmentation object and the crops of one call

vars == <<cfg, fs, pc, error, pg, run_id, bcast, state, epochs_run, epoch,
          snapshot, stop, early_stopping, restarts, writers, restored,
          trained, prev_latest, calls, source, aug>>

Ranks == 0..(cfg.world_size - 1)

\* line 62: one process per device
distributed == cfg.world_size > 1

\* dino.distributed.is_main_process: rank 0, or the only process
is_main_process(p) == p = 0

\* line 65, 69
gpu_id(p) == IF distributed THEN p ELSE -1

\* variant of NewEarlyStopping with the patience and min_epoch arguments
\* of lines 322-323 in each other's place
NewEarlyStoppingSwapped ==
    [min_max |-> cfg.min_max, patience |-> cfg.min_epoch,
     min_epoch |-> cfg.patience,
     best_score |-> -1, counter |-> 0, early_stop |-> FALSE]

\* EarlyStoppingDINO(...) of lines 319-327: direction, patience and
\* min_epoch from the configuration, nothing evaluated yet
NewEarlyStopping ==
    [min_max |-> cfg.min_max, patience |-> cfg.patience,
     min_epoch |-> cfg.min_epoch,
     best_score |-> -1, counter |-> 0, early_stop |-> FALSE]

\* the memory of a process that has just been started
Started ==
    /\ pc = [p \in Ranks |-> "start"]
    /\ error = [p \in Ranks |-> "none"]
    /\ pg = [p \in Ranks |-> "none"]
    /\ run_id = [p \in Ranks |-> ""]
    /\ bcast = ""
    /\ state = [p \in Ranks |-> Unbuilt]
    /\ epochs_run = [p \in Ranks |-> 0]
    /\ epoch = [p \in Ranks |-> -1]
    /\ snapshot = [p \in Ranks |-> NoSnap]
    /\ stop = [p \in Ranks |-> FALSE]
    /\ early_stopping = [p \in Ranks |-> NewEarlyStopping]
    /\ restored = [p \in Ranks |-> -1]
    /\ trained = [p \in Ranks |-> {}]
    /\ calls = [p \in Ranks |-> << >>]
    /\ source = [p \in Ranks |-> "none"]

Init ==
    /\ cfg \in Configs
    /\ fs = [d \in Dirs |-> IF d = "runA" THEN FreshDir(FALSE) ELSE NoDir]
    /\ restarts = 0
    /\ writers = {}
    /\ prev_latest = FALSE
    /\ aug = NoAugmentation
    /\ Started

(* ------------------------------ start-up ------------------------------ *)
\* lines 62-82: join the process group when there is more than one device;
\* the coordinating process then draws the run identifier (the minute of
\* the clock or the identifier of the tracking run), the others hold ""
MakeRunId(p) ==
    /\ pc[p] = "start"
    /\ pg' = [pg EXCEPT ![p] = IF distributed THEN "init" ELSE @]
    /\ \E id \in RunIds :
          run_id' = [run_id EXCEPT ![p] = IF is_main_process(p) THEN id ELSE ""]
    /\ pc' = [pc EXCEPT ![p] = "broadcast"]
    /\ UNCHANGED <<cfg, fs, error, bcast, state, epochs_run, epoch,
                   snapshot, stop, early_stopping, restarts, writers,
                   restored, trained,
                   prev_latest, calls, source, aug>>

\* variant of Broadcast in which a receiver keeps its own identifier
\* (line 89 dropped)
BroadcastNotAssigned(p) ==
    /\ pc[p] = "broadcast"
    /\ IF ~distributed
       THEN UNCHANGED <<bcast, run_id>>
       ELSE IF p = 0
            THEN /\ bcast' = run_id[p]
                 /\ UNCHANGED run_id
            ELSE /\ bcast # ""
                 /\ UNCHANGED <<bcast, run_id>>
    /\ pc' = [pc EXCEPT ![p] = "dirs"]
    /\ UNCHANGED <<cfg, fs, error, pg, state, epochs_run, epoch,
                   snapshot, stop, early_stopping, restarts, writers,
                   restored, trained,
                   prev_latest, calls, source, aug>>

\* lines 84-89: broadcast_object_list from rank 0; a receiver returns once
\* the object of rank 0 has arrived
Broadcast(p) ==
    /\ pc[p] = "broadcast"
    /\ IF ~distributed
       THEN UNCHANGED <<bcast, run_id>>
       ELSE IF p = 0
            THEN /\ bcast' = run_id[p]
                 /\ UNCHANGED run_id
            ELSE /\ bcast # ""
                 /\ run_id' = [run_id EXCEPT ![p] = bcast]
                 /\ UNCHANGED bcast
    /\ pc' = [pc EXCEPT ![p] = "dirs"]
    /\ UNCHANGED <<cfg, fs, error, pg, state, epochs_run, epoch,
                   snapshot, stop, early_stopping, restarts, writers,
                   restored, trained,
                   prev_latest, calls, source, aug>>

\* lines 97-108: the directory of the run after the coordinating process
\* of a run without train.resume has deleted and created it
PreparedDir ==
    FreshDir(cfg.tune_every # 0 /\ cfg.save_features)

\* lines 91-111: output, snapshot and feature directories, then the config
\* file; write_config opens a file in the output directory, which raises
\* when the directory does not exist
PrepareDirs(p) ==
    /\ pc[p] = "dirs"
    /\ IF is_main_process(p)
       THEN LET d == run_id[p]
                made == ~cfg.resume
                dir == IF made THEN PreparedDir ELSE fs[d]
                ops == (IF made /\ fs[d].exists THEN {<<p, "rmtree">>} ELSE {})
                       \cup (IF made THEN {<<p, "mkdir">>} ELSE {})
            IN  IF dir.exists
                THEN /\ fs' = [fs EXCEPT ![d] = [dir EXCEPT !.config = TRUE]]
                     /\ writers' = writers \cup ops \cup {<<p, "config">>}
                     /\ pc' = [pc EXCEPT ![p] = "build"]
                     /\ UNCHANGED error
                ELSE /\ error' = [error EXCEPT ![p] = "FileNotFoundError"]
                     /\ pc' = [pc EXCEPT ![p] = "failed"]
                     /\ UNCHANGED <<fs, writers>>
       ELSE /\ pc' = [pc EXCEPT ![p] = "build"]
            /\ UNCHANGED <<fs, writers, error>>
    /\ UNCHANGED <<cfg, pg, run_id, bcast, state, epochs_run, epoch,
                   snapshot, stop, early_stopping, restarts,
                   restored, trained,
                   prev_latest, calls, source, aug>>

\* variant of DDPJoined in which building the networks waits for nobody
DDPJoinedAlone(p) ==
    TRUE

\* lines 212-227: constructing DistributedDataParallel is a collective (the
\* parameters of rank 0 are verified against and broadcast to every rank):
\* a process passes it once every process of the group has come to build
\* its networks
DDPJoined(p) ==
    distributed =>
        \A q \in Ranks :
            /\ pc[q] \notin {"start", "broadcast", "dirs"}
            /\ ~(pc[q] = "failed" /\ error[q] = "FileNotFoundError")

\* lines 113-283: data, student and teacher networks (wrapped in distributed
\* mode), loss, optimizer and scaler, then the assertion
\* cfg.optim.epochs >= cfg.optim.warmup_epochs and the schedules
BuildNetworks(p) ==
    /\ pc[p] = "build"
    /\ DDPJoined(p)
    /\ state' = [state EXCEPT ![p] = BuildState(cfg)]
    /\ IF cfg.epochs >= cfg.warmup_epochs
       THEN /\ pc' = [pc EXCEPT ![p] = "restore"]
            /\ UNCHANGED error
       ELSE /\ pc' = [pc EXCEPT ![p] = "failed"]
            /\ error' = [error EXCEPT ![p] = "AssertionError"]
    /\ UNCHANGED <<cfg, fs, pg, run_id, bcast, epochs_run, epoch,
                   snapshot, stop, early_stopping, restarts, writers,
                   restored, trained,
                   prev_latest, calls, source, aug>>

\* dino.utils.resume_from_checkpoint: load the checkpoint into the given
\* objects and return the epoch to resume at; a missing file is fatal
resume_from_checkpoint(ckpt, s) ==
    [epochs_run |-> ckpt.epoch + 1, state |-> LoadState(s, ckpt)]

\* variant of KeysRead that reads the scaler state whatever the precision
\* (the test of line 300 dropped)
KeysReadWithScaler(s) ==
    {"epoch", "student", "teacher", "optimizer", "dino_loss", "fp16_scaler"}

\* lines 295-301: the keys the restore reads from the snapshot mapping
KeysRead(s) ==
    {"epoch", "student", "teacher", "optimizer", "dino_loss"}
        \cup (IF s.fp16_scaler # -1 THEN {"fp16_scaler"} ELSE {})

\* lines 288-293: distributed mode and snapshots/latest.pt is a file
RestoreFromLatest(p) ==
    /\ distributed
    /\ fs[run_id[p]].exists
    /\ fs[run_id[p]].latest # NoSnap

\* variant of RestoreFromCheckpoint that is tried whenever no rolling
\* snapshot was restored (the elif of line 305 attached to the inner test)
RestoreFromCheckpointAnyMode(p) ==
    /\ ~RestoreFromLatest(p)
    /\ cfg.resume

\* lines 288, 305: the explicit resume is the elif of the distributed test
RestoreFromCheckpoint(p) ==
    /\ ~distributed
    /\ cfg.resume

\* lines 285-329: restore from snapshots/latest.pt (distributed) or from
\* the checkpoint named in the configuration (single process, resume set),
\* then construct the early-stopping controller
Restore(p) ==
    /\ pc[p] = "restore"
    /\ IF RestoreFromLatest(p)
       THEN LET latest == fs[run_id[p]].latest IN
            IF KeysRead(state[p]) \subseteq DOMAIN latest
            THEN /\ epochs_run' = [epochs_run EXCEPT ![p] = latest.epoch]
                 /\ state' = [state EXCEPT ![p] = LoadState(@, latest)]
                 /\ restored' = [restored EXCEPT ![p] = latest.epoch]
                 /\ source' = [source EXCEPT ![p] = "latest"]
                 /\ pc' = [pc EXCEPT ![p] = "loop"]
                 /\ UNCHANGED error
            ELSE /\ error' = [error EXCEPT ![p] = "KeyError"]
                 /\ pc' = [pc EXCEPT ![p] = "failed"]
                 /\ UNCHANGED <<epochs_run, state, restored, source>>
       ELSE IF RestoreFromCheckpoint(p)
            THEN LET ckpt == cfg.resume_from_checkpoint IN
                 IF ckpt = NoSnap
                 THEN /\ error' = [error EXCEPT ![p] = "FileNotFoundError"]
                      /\ pc' = [pc EXCEPT ![p] = "failed"]
                      /\ UNCHANGED <<epochs_run, state, restored, source>>
                 ELSE LET r == resume_from_checkpoint(ckpt, state[p]) IN
                      /\ epochs_run' = [epochs_run EXCEPT ![p] = r.epochs_run]
                      /\ state' = [state EXCEPT ![p] = r.state]
                      /\ restored' = [restored EXCEPT ![p] = ckpt.epoch]
                      /\ source' = [source EXCEPT ![p] = "checkpoint"]
                      /\ pc' = [pc EXCEPT ![p] = "loop"]
                      /\ UNCHANGED error
            ELSE /\ epochs_run' = [epochs_run EXCEPT ![p] = 0]
                 /\ pc' = [pc EXCEPT ![p] = "loop"]
                 /\ UNCHANGED <<state, restored, source, error>>
    /\ epoch' = [epoch EXCEPT ![p] = epochs_run'[p]]
    /\ early_stopping' = [early_stopping EXCEPT ![p] = NewEarlyStopping]
    /\ stop' = [stop EXCEPT ![p] = FALSE]
    /\ UNCHANGED <<cfg, fs, pg, run_id, bcast, snapshot, restarts, writers,
                   trained, prev_latest, calls, aug>>

(* ----------------------------- epoch loop ----------------------------- *)
\* positions inside the epoch loop
InLoop == {"loop", "tune", "save", "barrier"}

\* the student is wrapped for distributed training (line 225), so the
\* gradient step of train_one_epoch is a collective: it completes only when
\* every process of the group takes part in the training of this epoch
GradientsSynchronized(p) ==
    distributed =>
        \A q \in Ranks : pc[q] \in InLoop /\ epoch[q] = epoch[p]

\* lines 344-383: train one epoch; the coordinating process then builds the
\* snapshot mapping of the epoch
TrainOneEpoch(p) ==
    /\ pc[p] = "loop"
    /\ epoch[p] < cfg.epochs
    /\ GradientsSynchronized(p)
    /\ state' = [state EXCEPT ![p] = TrainState(@)]
    /\ trained' = [trained EXCEPT ![p] = @ \cup {epoch[p]}]
    /\ snapshot' = [snapshot EXCEPT ![p] =
                       IF is_main_process(p)
                       THEN MakeSnapshot(epoch[p], state'[p]) ELSE @]
    /\ pc' = [pc EXCEPT ![p] = "tune"]
    /\ UNCHANGED <<cfg, fs, error, pg, run_id, bcast, epochs_run, epoch,
                   stop, early_stopping, restarts, writers, restored,
                   prev_latest, calls, source, aug>>

\* the range of line 333 is exhausted
LoopExit(p) ==
    /\ pc[p] = "loop"
    /\ epoch[p] >= cfg.epochs
    /\ pc' = [pc EXCEPT ![p] = "teardown"]
    /\ UNCHANGED <<cfg, fs, error, pg, run_id, bcast, state, epochs_run,
                   epoch, snapshot, stop, early_stopping, restarts, writers,
                   restored, trained,
                   prev_latest, calls, source, aug>>

\* EarlyStoppingDINO: is score an improvement over the best seen
Improves(es, score) ==
    \/ es.best_score = -1
    \/ IF es.min_max = "max" THEN score > es.best_score
                             ELSE score < es.best_score

\* EarlyStoppingDINO.__call__(epoch, results, snapshot): track the best
\* value, count evaluations without improvement, raise the stop flag after
\* `patience` of them once epoch >= min_epoch, keep the best snapshot and
\* overwrite the rolling latest snapshot; results = -1 is None
EarlyStoppingCall(es, e, results, snap, d) ==
    LET improved == results # -1 /\ Improves(es, results)
        counter == IF results = -1 THEN es.counter
                   ELSE IF improved THEN 0 ELSE es.counter + 1
    IN  [es |-> [es EXCEPT
                    !.best_score = IF improved THEN results ELSE @,
                    !.counter = counter,
                    !.early_stop = \/ @
                                   \/ /\ results # -1
                                      /\ ~improved
                                      /\ counter >= es.patience
                                      /\ e >= es.min_epoch],
         dir |-> [d EXCEPT !.best = IF improved THEN snap ELSE @,
                           !.latest = snap]]

\* variant of TuneNow without the test of the cadence (line 389 dropped)
TuneNowEveryEpoch(p) ==
    /\ cfg.tune_every # 0
    /\ is_main_process(p)

\* line 387-391: does tuning run in this epoch on this process
TuneNow(p) ==
    /\ cfg.tune_every # 0
    /\ epoch[p] % cfg.tune_every = 0
    /\ is_main_process(p)

\* variant of StopFlag that ignores tune.enable
StopFlagWithoutEnable(es) ==
    es.early_stop

\* line 414: the loop stops on the flag of the controller only when
\* tune.enable is set
StopFlag(es) ==
    es.early_stop /\ cfg.tune_enable

\* lines 385-421: tuning, the early-stopping call and the stop flag; the
\* loop breaks right here when the flag is raised
Tune(p) ==
    /\ pc[p] = "tune"
    /\ \E m \in Metrics :
         LET tune_results == IF TuneNow(p) THEN m ELSE -1
             r == EarlyStoppingCall(early_stopping[p], epoch[p],
                                    tune_results, snapshot[p], fs[run_id[p]])
         IN  IF is_main_process(p)
             THEN /\ early_stopping' = [early_stopping EXCEPT ![p] = r.es]
                  /\ fs' = [fs EXCEPT ![run_id[p]] =
                               [r.dir EXCEPT !.taken = state[p]]]
                  /\ writers' = writers \cup {<<p, "latest">>} \cup
                        (IF r.dir.best # fs[run_id[p]].best
                         THEN {<<p, "best">>} ELSE {}) \cup
                        (IF TuneNow(p) THEN {<<p, "tune">>} ELSE {})
                  /\ calls' = [calls EXCEPT ![p] =
                        Append(@, [epoch |-> epoch[p],
                                   results |-> tune_results])]
                  /\ stop' = [stop EXCEPT ![p] = StopFlag(r.es)]
             ELSE UNCHANGED <<early_stopping, fs, stop, writers, calls>>
    /\ pc' = [pc EXCEPT ![p] = IF stop'[p] THEN "teardown" ELSE "save"]
    /\ UNCHANGED <<cfg, error, pg, run_id, bcast, state, epochs_run, epoch,
                   snapshot, restarts, restored, trained, prev_latest,
                   source, aug>>

\* variant of SaveNow without the test of line 429
SaveNowAlways(p) ==
    /\ cfg.save_every # 0
    /\ epoch[p] % cfg.save_every = 0

\* lines 426-430: the condition of the periodic save
SaveNow(p) ==
    /\ cfg.save_every # 0
    /\ epoch[p] % cfg.save_every = 0
    /\ epoch[p] \notin DOMAIN fs[run_id[p]].epoch_files

\* lines 423-431: the epoch-numbered snapshot files after the periodic save
SavedFiles(p, files) ==
    IF is_main_process(p) /\ SaveNow(p)
    THEN (epoch[p] :> snapshot[p]) @@ files
    ELSE files

\* variant of LoggedLines without the test of line 437
LoggedLinesAnyRank(p, log) ==
    Append(log, epoch[p])

\* lines 433-439: log.txt after the line of the epoch is appended
LoggedLines(p, log) ==
    IF is_main_process(p) THEN Append(log, epoch[p]) ELSE log

\* lines 423-451: periodic epoch-numbered snapshot, then one line of
\* log.txt; without a barrier the loop moves on to the next epoch
SaveAndLog(p) ==
    /\ pc[p] = "save"
    /\ LET d == fs[run_id[p]]
           files == SavedFiles(p, d.epoch_files)
           log == LoggedLines(p, d.log)
       IN  /\ fs' = [fs EXCEPT ![run_id[p]] =
                        IF files # d.epoch_files \/ log # d.log
                        THEN [d EXCEPT !.epoch_files = files, !.log = log]
                        ELSE d]
           /\ writers' = writers
                 \cup (IF files # d.epoch_files THEN {<<p, "epoch_file">>} ELSE {})
                 \cup (IF log # d.log THEN {<<p, "log">>} ELSE {})
    /\ IF distributed
       THEN /\ pc' = [pc EXCEPT ![p] = "barrier"]
            /\ UNCHANGED epoch
       ELSE /\ pc' = [pc EXCEPT ![p] = "loop"]
            /\ epoch' = [epoch EXCEPT ![p] = @ + 1]
    /\ UNCHANGED <<cfg, error, pg, run_id, bcast, state, epochs_run,
                   snapshot, stop, early_stopping, restarts, restored,
                   trained,
                   prev_latest, calls, source, aug>>

\* variant of Barrier that lets each process through on its own
BarrierNoWait ==
    /\ distributed
    /\ \E p \in Ranks :
         /\ pc[p] = "barrier"
         /\ pc' = [pc EXCEPT ![p] = "loop"]
         /\ epoch' = [epoch EXCEPT ![p] = @ + 1]
    /\ UNCHANGED <<cfg, fs, error, pg, run_id, bcast, state, epochs_run,
                   snapshot, stop, early_stopping, restarts, writers,
                   restored, trained,
                   prev_latest, calls, source, aug>>

\* lines 453-455: torch.distributed.barrier() returns once every process of
\* the group has entered it
Barrier ==
    /\ distributed
    /\ \A p \in Ranks : pc[p] = "barrier"
    /\ pc' = [p \in Ranks |-> "loop"]
    /\ epoch' = [p \in Ranks |-> epoch[p] + 1]
    /\ UNCHANGED <<cfg, fs, error, pg, run_id, bcast, state, epochs_run,
                   snapshot, stop, early_stopping, restarts, writers,
                   restored, trained,
                   prev_latest, calls, source, aug>>

\* lines 457-462: report the time and destroy the process group
Teardown(p) ==
    /\ pc[p] = "teardown"
    /\ pg' = [pg EXCEPT ![p] = IF distributed THEN "destroyed" ELSE @]
    /\ pc' = [pc EXCEPT ![p] = "done"]
    /\ UNCHANGED <<cfg, fs, error, run_id, bcast, state, epochs_run, epoch,
                   snapshot, stop, early_stopping, restarts, writers,
                   restored, trained,
                   prev_latest, calls, source, aug>>

(* ------------------------------ supervisor ---------------------------- *)
\* the job fails and its supervisor starts it again with the same
\* configuration: every process starts main() anew, the files remain (a
\* failure before the first write of a run leaves the files as they were at
\* its start, so that the restart is the start of that run once more)
Restart ==
    /\ restarts < MaxRestarts
    /\ writers # {}
    /\ restarts' = restarts + 1
    /\ prev_latest' = (\E p \in Ranks : <<p, "latest">> \in writers)
    /\ writers' = {}
    /\ pc' = [p \in Ranks |-> "start"]
    /\ error' = [p \in Ranks |-> "none"]
    /\ pg' = [p \in Ranks |-> "none"]
    /\ run_id' = [p \in Ranks |-> ""]
    /\ bcast' = ""
    /\ state' = [p \in Ranks |-> Unbuilt]
    /\ epochs_run' = [p \in Ranks |-> 0]
    /\ epoch' = [p \in Ranks |-> -1]
    /\ snapshot' = [p \in Ranks |-> NoSnap]
    /\ stop' = [p \in Ranks |-> FALSE]
    /\ early_stopping' = [p \in Ranks |-> NewEarlyStopping]
    /\ restored' = [p \in Ranks |-> -1]
    /\ trained' = [p \in Ranks |-> {}]
    /\ calls' = [p \in Ranks |-> << >>]
    /\ source' = [p \in Ranks |-> "none"]
    /\ UNCHANGED <<cfg, fs, aug>>

\* one run of the job: the steps of its processes and the barrier
Run ==
    \/ \E p \in Ranks : MakeRunId(p)
    \/ \E p \in Ranks : Broadcast(p)
    \/ \E p \in Ranks : PrepareDirs(p)
    \/ \E p \in Ranks : BuildNetworks(p)
    \/ \E p \in Ranks : Restore(p)
    \/ \E p \in Ranks : TrainOneEpoch(p)
    \/ \E p \in Ranks : LoopExit(p)
    \/ \E p \in Ranks : Tune(p)
    \/ \E p \in Ranks : SaveAndLog(p)
    \/ \E p \in Ranks : Teardown(p)
    \/ Barrier

Next ==
    \/ Run
    \/ Restart

Spec == Init /\ [][Next]_vars

\* the steps of process p
Proc(p) ==
    /\ p \in Ranks
    /\ \/ MakeRunId(p)
       \/ Broadcast(p)
       \/ PrepareDirs(p)
       \/ BuildNetworks(p)
       \/ Restore(p)
       \/ TrainOneEpoch(p)
       \/ LoopExit(p)
       \/ Tune(p)
       \/ SaveAndLog(p)
       \/ Teardown(p)

\* a run without failures in which every process and the barrier keep
\* running when they can
FairSpec ==
    /\ Init
    /\ [][Run]_vars
    /\ \A p \in 0..(MaxProcs - 1) : WF_vars(Proc(p))
    /\ WF_vars(Barrier)

(* ------------------- the early-stopping controller -------------------- *)
\* a single-process configuration that tunes in every epoch and leaves the
\* loop to run on (tune.enable false)
ESConfigs ==
    { c \in [world_size : {1},
             resume : {FALSE},
             resume_from_checkpoint : {ExternalCheckpoint(FALSE)},
             epochs : {MaxEvals},
             warmup_epochs : {0},
             save_every : {0},
             tune_every : {1},
             tune_enable : {FALSE},
             save_features : {TRUE},
             use_fp16 : {FALSE},
             patience : ESPatienceValues,
             min_epoch : ESMinEpochValues,
             min_max : ESMinMaxValues] : TRUE }

\* the controller of lines 319-327 right after its construction, in a
\* process that is about to enter the epoch loop at epoch 0
ESInit ==
    /\ cfg \in ESConfigs
    /\ fs = [d \in Dirs |-> IF d = "runA" THEN FreshDir(TRUE) ELSE NoDir]
    /\ restarts = 0
    /\ writers = {}
    /\ prev_latest = FALSE
    /\ aug = NoAugmentation
    /\ pc = [p \in Ranks |-> "controller"]
    /\ error = [p \in Ranks |-> "none"]
    /\ pg = [p \in Ranks |-> "none"]
    /\ run_id = [p \in Ranks |-> "runA"]
    /\ bcast = ""
    /\ state = [p \in Ranks |-> BuildState(cfg)]
    /\ epochs_run = [p \in Ranks |-> 0]
    /\ epoch = [p \in Ranks |-> 0]
    /\ snapshot = [p \in Ranks |-> NoSnap]
    /\ stop = [p \in Ranks |-> FALSE]
    /\ early_stopping = [p \in Ranks |-> NewEarlyStopping]
    /\ restored = [p \in Ranks |-> -1]
    /\ trained = [p \in Ranks |-> {}]
    /\ calls = [p \in Ranks |-> << >>]
    /\ source = [p \in Ranks |-> "none"]

\* line 413 once per epoch: early_stopping(epoch, tune_results, snapshot)
\* with the result of a tuning evaluation, or None in an epoch without one
ESEvaluate ==
    /\ pc[0] = "controller"
    /\ Len(calls[0]) < MaxEvals
    /\ \E results \in ESMetrics \cup {-1} :
         LET snap == MakeSnapshot(epoch[0], state[0])
             r == EarlyStoppingCall(early_stopping[0], epoch[0], results,
                                    snap, fs[run_id[0]])
         IN  /\ early_stopping' = [early_stopping EXCEPT ![0] = r.es]
             /\ fs' = [fs EXCEPT ![run_id[0]] = r.dir]
             /\ snapshot' = [snapshot EXCEPT ![0] = snap]
             /\ calls' = [calls EXCEPT ![0] =
                   Append(@, [epoch |-> epoch[0], results |-> results])]
    /\ epoch' = [epoch EXCEPT ![0] = @ + 1]
    /\ UNCHANGED <<cfg, pc, error, pg, run_id, bcast, state, epochs_run,
                   stop, restarts, writers, restored, trained, prev_latest,
                   source, aug>>

ESNext == ESEvaluate

ESSpec == ESInit /\ [][ESNext]_vars

(* ----------------------- the augmentation pipeline -------------------- *)
\* augmentations.py lines 67-68
GlobalCropSize == 224
LocalCropSize == 96
\* defaults of RegionDataAugmentationDINO.__init__
RegionSize == 4096
PatchSize == 256
\* side of the input image of the patch variant, in pixels
ImageSides == {64, 256}
\* crop scales of the region variant, in hundredths
GlobalScales == {50, 100}
LocalScales == {10, 25}

\* PatchDataAugmentationDINO.__init__: the crop sizes are fixed
PatchDataAugmentationDINO(local_crops_number) ==
    [variant |-> "patch",
     global_crop_size |-> GlobalCropSize,
     local_crop_size |-> LocalCropSize,
     local_crops_number |-> local_crops_number]

\* RegionDataAugmentationDINO.__init__: the crop sizes are the scales times
\* the number of patches on a side of the region, truncated
RegionDataAugmentationDINO(global_crops_scale, local_crops_number, local_crops_scale) ==
    LET npatch == RegionSize \div PatchSize
    IN  [variant |-> "region",
         npatch |-> npatch,
         global_crop_size |-> (global_crops_scale * npatch) \div 100,
         local_crop_size |-> (local_crops_scale * npatch) \div 100,
         local_crops_number |-> local_crops_number]

\* transforms.RandomResizedCrop(size): a random area of the input, resized
\* to size, whatever the side of the input
RandomResizedCrop(size, side) == size

\* transforms.RandomCrop(size): a window of size out of the input, which
\* is no smaller; -1 is the exception it raises otherwise
RandomCrop(size, side) == IF size <= side THEN size ELSE -1

\* the side of the output of a transform of object a on an input of side x
\* (flips, colour changes, blur and normalisation keep the side)
Transformed(a, size, x) ==
    IF a.variant = "patch" THEN RandomResizedCrop(size, x)
                           ELSE RandomCrop(size, x)

global_transfo1(a, x) ==
    [by |-> "global_transfo1", side |-> Transformed(a, a.global_crop_size, x)]

global_transfo2(a, x) ==
    [by |-> "global_transfo2", side |-> Transformed(a, a.global_crop_size, x)]

local_transfo(a, x) ==
    [by |-> "local_transfo", side |-> Transformed(a, a.local_crop_size, x)]

\* an augmentation object and the input of one call of it; the region
\* variant unfolds its input into npatch x npatch feature vectors
AugCalls ==
    { [pc |-> "call", obj |-> PatchDataAugmentationDINO(k), x |-> side,
       crops |-> << >>, i |-> 0] :
          k \in 0..MaxLocalCrops, side \in ImageSides }
    \cup
    { [pc |-> "call", obj |-> RegionDataAugmentationDINO(g, k, l),
       x |-> RegionSize \div PatchSize, crops |-> << >>, i |-> 0] :
          g \in GlobalScales, k \in 0..MaxLocalCrops, l \in LocalScales }

AugInit ==
    /\ cfg = CHOOSE c \in Configs : c.world_size = 1
    /\ fs = [d \in Dirs |-> IF d = "runA" THEN FreshDir(FALSE) ELSE NoDir]
    /\ restarts = 0
    /\ writers = {}
    /\ prev_latest = FALSE
    /\ Started
    /\ aug \in AugCalls

\* a call of the augmentation object touches nothing of the training job
AugFrame ==
    UNCHANGED <<cfg, fs, pc, error, pg, run_id, bcast, state, epochs_run,
                epoch, snapshot, stop, early_stopping, restarts, writers,
                restored, trained, prev_latest, calls, source>>

\* __call__: crops.append(self.global_transfo1(x))
AugGlobal1 ==
    /\ aug.pc = "call"
    /\ aug' = [aug EXCEPT !.crops = Append(@, global_transfo1(aug.obj, aug.x)),
                          !.pc = "global2"]
    /\ AugFrame

\* __call__: crops.append(self.global_transfo2(x))
AugGlobal2 ==
    /\ aug.pc = "global2"
    /\ aug' = [aug EXCEPT !.crops = Append(@, global_transfo2(aug.obj, aug.x)),
                          !.pc = "local"]
    /\ AugFrame

\* variant of LocalCropsLeft whose range stops one short
LocalCropsLeftOneShort(a) ==
    a.i < a.obj.local_crops_number - 1

\* for _ in range(self.local_crops_number)
LocalCropsLeft(a) ==
    a.i < a.obj.local_crops_number

\* __call__: one turn of the loop, crops.append(self.local_transfo(x))
AugLocal ==
    /\ aug.pc = "local"
    /\ LocalCropsLeft(aug)
    /\ aug' = [aug EXCEPT !.crops = Append(@, local_transfo(aug.obj, aug.x)),
                          !.i = @ + 1]
    /\ AugFrame

\* __call__: return crops
AugReturn ==
    /\ aug.pc = "local"
    /\ ~LocalCropsLeft(aug)
    /\ aug' = [aug EXCEPT !.pc = "returned"]
    /\ AugFrame

AugNext ==
    \/ AugGlobal1
    \/ AugGlobal2
    \/ AugLocal
    \/ AugReturn

AugSpec == AugInit /\ [][AugNext]_vars

(* ------------------------------ properties ---------------------------- *)
\* positions after the epoch loop, after the restore step, after the broadcast
AfterLoop == {"teardown", "done"}
AfterRestore == InLoop \cup AfterLoop
AfterBroadcast ==
    {"dirs", "build", "restore", "failed"}
        \cup AfterRestore

LogHas(d, e) == \E i \in DOMAIN fs[d].log : fs[d].log[i] = e

\* C1: a process that restored a snapshot of epoch e starts its epoch loop
\* at e + 1 and never trains epoch e again.
C1_ResumeAtNextEpoch ==
    \A p \in Ranks :
        restored[p] # -1 =>
            /\ epochs_run[p] = restored[p] + 1
            /\ restored[p] \notin trained[p]

\* C2: once a process is in the epoch loop, every process eventually has
\* left the loop, torn down and released the process group, whether the
\* loop ran all epochs or was stopped early.
C2_AllReachTeardown ==
    (\E p \in Ranks : pc[p] \in InLoop)
        ~> (\A p \in Ranks : pc[p] = "done" /\ (distributed => pg[p] = "destroyed"))

\* C3: a process that left the loop by the early-stop flag in epoch e has
\* written the log line of epoch e, and the epoch-numbered snapshot of e
\* exists when e is on the save cadence.
C3_BookkeepingBeforeStop ==
    \A p \in Ranks :
        (stop[p] /\ pc[p] \in AfterLoop) =>
            /\ LogHas(run_id[p], epoch[p])
            /\ (cfg.save_every # 0 /\ epoch[p] % cfg.save_every = 0) =>
                   epoch[p] \in DOMAIN fs[run_id[p]].epoch_files

\* C4: in distributed mode all processes start the loop at the same epoch,
\* are in the same epoch while in the loop, and no process has trained
\* epoch e + 1 unless every process has trained epoch e.
C4_SameEpoch ==
    distributed =>
        \A p, q \in Ranks :
            /\ (pc[p] \in AfterRestore /\ pc[q] \in AfterRestore) =>
                   epochs_run[p] = epochs_run[q]
            /\ (pc[p] \in InLoop /\ pc[q] \in InLoop) => epoch[p] = epoch[q]
            /\ \A e \in trained[p] :
                   e > epochs_run[p] => (e - 1) \in trained[q]

C4_Witness ==
    /\ distributed
    /\ \A p \in Ranks : pc[p] = "tune" /\ trained[p] = {0, 1}

\* C5: every directory creation or deletion, config, log and snapshot write
\* and every tuning run was performed by rank 0.
C5_OnlyRankZeroWrites ==
    \A w \in writers : w[1] = 0

C5_Witness ==
    /\ distributed
    /\ pc[1] = "barrier"
    /\ {<<0, "mkdir">>, <<0, "config">>, <<0, "latest">>, <<0, "tune">>,
        <<0, "epoch_file">>, <<0, "log">>} \subseteq writers

\* C6: before the broadcast only rank 0 holds a run identifier; after it
\* every process holds the identifier rank 0 generated.
C6_SameRunId ==
    \A p \in Ranks :
        /\ (pc[p] = "broadcast" /\ p # 0) => run_id[p] = ""
        /\ pc[p] \in AfterBroadcast =>
               run_id[p] \in RunIds /\ run_id[p] = run_id[0]

C6_Witness ==
    /\ distributed
    /\ \A p \in Ranks : pc[p] = "dirs" /\ run_id[p] = "runB"

\* C7: in a distributed job restarted after the failed run had written the
\* rolling latest snapshot, every process that is past the restore step
\* has restored a snapshot.
C7_RestartResumes ==
    (distributed /\ restarts > 0 /\ prev_latest) =>
        \A p \in Ranks : pc[p] \in AfterRestore => restored[p] # -1

\* C8: in distributed mode the restore step of a process, when
\* snapshots/latest.pt exists, loads student, teacher, optimizer and loss
\* state from it and starts at its epoch; when it does not exist, the step
\* changes no state, raises no error and starts at epoch 0.
C8_RestoreStep ==
    [][\A p \in Ranks :
         (distributed /\ pc[p] = "restore" /\ restarts' = restarts
              /\ pc'[p] # "restore") =>
            LET d == fs[run_id[p]] IN
            IF d.exists /\ d.latest # NoSnap
            THEN /\ state'[p].student = d.latest.student
                 /\ state'[p].teacher = d.latest.teacher
                 /\ state'[p].optimizer = d.latest.optimizer
                 /\ state'[p].dino_loss = d.latest.dino_loss
                 /\ epochs_run'[p] = d.latest.epoch
                 /\ pc'[p] = "loop"
            ELSE /\ state'[p] = state[p]
                 /\ error'[p] = "none"
                 /\ epochs_run'[p] = 0
                 /\ pc'[p] = "loop"]_vars

C8_Witness ==
    /\ distributed
    /\ \A p \in Ranks : pc[p] = "loop" /\ restored[p] = 1 /\ state[p].dino_loss = 2

\* C9: a step never changes an epoch-numbered snapshot file that exists
\* before and after it, and a file it creates is numbered by an epoch on
\* the save cadence.
C9_NoOverwrite ==
    [][\A d \in Dirs :
         (fs[d].exists /\ fs'[d].exists) =>
            \A e \in DOMAIN fs'[d].epoch_files :
               IF e \in DOMAIN fs[d].epoch_files
               THEN fs'[d].epoch_files[e] = fs[d].epoch_files[e]
               ELSE cfg.save_every # 0 /\ e % cfg.save_every = 0]_vars

C9_Witness ==
    /\ pc[0] = "barrier"
    /\ cfg.save_every # 0
    /\ epoch[0] % cfg.save_every = 0
    /\ epoch[0] \in DOMAIN fs[run_id[0]].epoch_files
    /\ fs[run_id[0]].epoch_files[epoch[0]] # snapshot[0]

\* C10: when the assertion on epochs and warmup_epochs fires in a process,
\* that process has not joined the process group and has built no network,
\* and no directory was created or deleted and no config file written.
C10_AssertBeforeAllocation ==
    \A p \in Ranks :
        error[p] = "AssertionError" =>
            /\ pg[p] = "none"
            /\ state[p] = Unbuilt
            /\ writers = {}

(* ---- the early-stopping controller, from the history of its calls ---- *)
\* the best tuning result among the first k calls, -1 when there is none
RECURSIVE BestOf(_, _)
BestOf(h, k) ==
    IF k = 0 THEN -1
    ELSE LET b == BestOf(h, k - 1)
             r == h[k].results
         IN  IF r = -1 THEN b
             ELSE IF b = -1 THEN r
             ELSE IF cfg.min_max = "max"
                  THEN (IF r > b THEN r ELSE b)
                  ELSE (IF r < b THEN r ELSE b)

\* call k is a tuning evaluation that leaves the best value as it was
NoImprovement(h, k) ==
    h[k].results # -1 /\ BestOf(h, k) = BestOf(h, k - 1)

\* the number of consecutive tuning evaluations without improvement that
\* end with call k
RECURSIVE Streak(_, _)
Streak(h, k) ==
    IF k = 0 THEN 0
    ELSE IF h[k].results = -1 THEN Streak(h, k - 1)
    ELSE IF NoImprovement(h, k) THEN Streak(h, k - 1) + 1
    ELSE 0

\* call k is an evaluation at epoch >= min_epoch that completes `patience`
\* consecutive evaluations without improvement
StopDue(h, k) ==
    /\ NoImprovement(h, k)
    /\ Streak(h, k) >= cfg.patience
    /\ h[k].epoch >= cfg.min_epoch

\* the metric sequence 0.5, 0.6, 0.55, 0.54, 0.53 in hundredths
ExampleMetrics == <<50, 60, 55, 54, 53>>

\* the calls so far are evaluations of a prefix of ExampleMetrics under
\* patience 3, min_epoch 0, direction maximize
OnExample ==
    /\ cfg.patience = 3 /\ cfg.min_epoch = 0 /\ cfg.min_max = "max"
    /\ Len(calls[0]) <= Len(ExampleMetrics)
    /\ \A k \in 1..Len(calls[0]) : calls[0][k].results = ExampleMetrics[k]

C12_RoundTrip ==
    [][\A p \in Ranks :
         (RestoreFromLatest(p) /\ pc[p] = "restore" /\ pc'[p] = "loop"
              /\ restarts' = restarts) =>
            state'[p] = fs[run_id[p]].taken]_vars

C12_Witness ==
    /\ distributed
    /\ cfg.use_fp16
    /\ \A p \in Ranks :
          /\ pc[p] = "loop"
          /\ source[p] = "latest"
          /\ trained[p] = {}
          /\ state[p] = fs[run_id[p]].taken
          /\ state[p].fp16_scaler = 2

\* the number of lines of log.txt in directory d that carry epoch e
LogCount(d, e) ==
    Cardinality({i \in DOMAIN fs[d].log : fs[d].log[i] = e})

\* C13: log.txt never holds two lines of the same epoch, and when the
\* coordinating process has finished, every epoch it trained in this run
\* has exactly one line, also in a resumed run and after an early stop.
C13_OneLinePerEpoch ==
    /\ \A d \in Dirs : fs[d].exists =>
           \A e \in 0..(cfg.epochs - 1) : LogCount(d, e) <= 1
    /\ \A p \in Ranks :
           (is_main_process(p) /\ pc[p] = "done") =>
               \A e \in trained[p] : LogCount(run_id[p], e) = 1

\* C14: a call of the augmentation object (patch and region variant) that
\* has returned gave exactly 2 + local_crops_number crops, the first by
\* global_transfo1 and the second by global_transfo2 at the global crop
\* size, all others by local_transfo at the local crop size, and as many
\* crops as the loss is built for.
C14_CropList ==
    aug.pc = "returned" =>
        LET k == aug.obj.local_crops_number
            global == aug.obj.global_crop_size
            local == aug.obj.local_crop_size
        IN  /\ Len(aug.crops) = 2 + k
            /\ aug.crops[1] = [by |-> "global_transfo1", side |-> global]
            /\ aug.crops[2] = [by |-> "global_transfo2", side |-> global]
            /\ \A n \in 3..(k + 2) :
                   aug.crops[n] = [by |-> "local_transfo", side |-> local]
            /\ Len(aug.crops) = crops_number(k)

C14_Witness ==
    /\ aug.pc = "returned"
    /\ aug.obj.variant = "region"
    /\ aug.obj.local_crops_number = MaxLocalCrops
    /\ Len(aug.crops) = MaxLocalCrops + 2
    /\ aug.crops[1].side = 8
    /\ aug.crops[3].side = 4

\* the keys of a snapshot mapping under the configuration of the job
SnapshotKeys ==
    {"epoch", "student", "teacher", "optimizer", "dino_loss"}
        \cup (IF cfg.use_fp16 THEN {"fp16_scaler"} ELSE {})

\* the snapshot files of directory d
SnapshotFiles(d) ==
    ({fs[d].latest, fs[d].best}
        \cup {fs[d].epoch_files[e] : e \in DOMAIN fs[d].epoch_files})
        \ {NoSnap}

\* C15: every snapshot mapping built by the loop, in memory or in a file,
\* has the keys epoch, student, teacher, optimizer, dino_loss, and
\* fp16_scaler exactly under mixed precision; a process about to restore
\* snapshots/latest.pt finds every key it reads, and none ever fails on a
\* missing key.
C15_SnapshotKeys ==
    /\ \A p \in Ranks :
           snapshot[p] # NoSnap => DOMAIN snapshot[p] = SnapshotKeys
    /\ \A d \in Dirs : fs[d].exists =>
           \A f \in SnapshotFiles(d) : DOMAIN f = SnapshotKeys
    /\ \A p \in Ranks :
           /\ error[p] # "KeyError"
           /\ (pc[p] = "restore" /\ RestoreFromLatest(p)) =>
                  KeysRead(state[p]) \subseteq DOMAIN fs[run_id[p]].latest

C15_Witness ==
    /\ distributed
    /\ ~cfg.use_fp16
    /\ snapshot[0] # NoSnap
    /\ \A p \in Ranks :
          /\ source[p] = "latest"
          /\ "fp16_scaler" \notin DOMAIN fs[run_id[p]].latest

\* the coordinating process has done the bookkeeping of its current epoch:
\* tuning when it is due, the call of the controller (which writes the
\* rolling snapshot), the periodic snapshot and the log line
BookkeepingDone ==
    LET e == epoch[0]
        d == fs[run_id[0]]
    IN  /\ TuneNow(0) => <<0, "tune">> \in writers
        /\ Len(calls[0]) > 0
        /\ calls[0][Len(calls[0])].epoch = e
        /\ d.latest # NoSnap
        /\ d.latest.epoch = e
        /\ (cfg.save_every # 0 /\ e % cfg.save_every = 0) =>
               e \in DOMAIN d.epoch_files
        /\ LogHas(run_id[0], e)

\* C16: in distributed mode a process passes one barrier per epoch, after
\* its training of that epoch; the coordinating process is in the barrier
\* only after the bookkeeping of the epoch; and while the coordinating
\* process is tuning or writing for epoch e no process is in a later epoch.
C16_BarrierAfterBookkeeping ==
    distributed =>
        /\ \A p \in Ranks :
               /\ pc[p] = "barrier" => epoch[p] \in trained[p]
               /\ pc[p] = "loop" =>
                      trained[p] = epochs_run[p]..(epoch[p] - 1)
        /\ pc[0] = "barrier" => BookkeepingDone
        /\ pc[0] \in {"tune", "save"} =>
               \A p \in Ranks : pc[p] \in InLoop => epoch[p] <= epoch[0]

C16_Witness ==
    /\ distributed
    /\ cfg.tune_every = 1
    /\ cfg.save_every # 0
    /\ BookkeepingDone
    /\ epoch[0] = 0
    /\ \A p \in Ranks : pc[p] = "barrier"

\* C17: only the coordinating process calls the controller and runs
\* tuning; a call of epoch e carries a tuning result exactly when tune_every
\* is not zero and e is a multiple of it, and no result otherwise.
C17_TuningCadence ==
    \A p \in Ranks :
        /\ ~is_main_process(p) =>
               calls[p] = << >> /\ <<p, "tune">> \notin writers
        /\ \A k \in 1..Len(calls[p]) :
               calls[p][k].results # -1 <=>
                   (cfg.tune_every # 0 /\ calls[p][k].epoch % cfg.tune_every = 0)
        /\ <<p, "tune">> \in writers <=>
               \E k \in 1..Len(calls[p]) : calls[p][k].results # -1

C17_Witness ==
    /\ distributed
    /\ cfg.tune_every = 2
    /\ \A p \in Ranks : pc[p] = "barrier" /\ epoch[p] = 1
    /\ Len(calls[0]) = 2
    /\ calls[0][1].results # -1
    /\ calls[0][2].results = -1

\* C18: the stop flag of the loop is set only when the flag of the
\* controller is raised and tune.enable is true; a process that left the
\* loop before the last epoch had the stop flag set; and with tune.enable
\* false a process that left the loop has trained every epoch from its
\* first one up to optim.epochs.
C18_StopNeedsEnable ==
    \A p \in Ranks :
        /\ stop[p] => (early_stopping[p].early_stop /\ cfg.tune_enable)
        /\ (pc[p] \in AfterLoop /\ epoch[p] < cfg.epochs) => stop[p]
        /\ (pc[p] \in AfterLoop /\ ~cfg.tune_enable) =>
               trained[p] = epochs_run[p]..(cfg.epochs - 1)

C18_Witness ==
    /\ ~cfg.tune_enable
    /\ cfg.tune_every = 1
    /\ early_stopping[0].early_stop
    /\ ~stop[0]
    /\ pc[0] = "done"
    /\ trained[0] = 0..(cfg.epochs - 1)
    /\ LogHas(run_id[0], cfg.epochs - 1)

\* C19: a process restores from train.resume_from_checkpoint only in
\* single-process mode with train.resume set; in distributed mode a
\* process that restored nothing from snapshots/latest.pt starts at epoch
\* 0 with freshly built state, as does every process of the first run of a
\* job, which finds no latest.pt, whatever train.resume and
\* train.resume_from_checkpoint are.
C19_CheckpointOnlySingleProcess ==
    \A p \in Ranks :
        /\ source[p] = "checkpoint" => (~distributed /\ cfg.resume)
        /\ (distributed /\ pc[p] \in AfterRestore /\ source[p] # "latest") =>
               /\ source[p] = "none"
               /\ epochs_run[p] = 0
               /\ trained[p] = {} => state[p] = BuildState(cfg)
        /\ (distributed /\ pc[p] \in AfterRestore /\ restarts = 0) =>
               source[p] = "none"

C19_Witness ==
    /\ distributed
    /\ cfg.resume
    /\ cfg.resume_from_checkpoint # NoSnap
    /\ \A p \in Ranks :
          /\ pc[p] = "loop"
          /\ source[p] = "none"
          /\ epochs_run[p] = 0
          /\ state[p] = BuildState(cfg)
          /\ fs[run_id[p]].latest = NoSnap

\* C20: in a run without train.resume every process that is past the
\* restore step has restored nothing and starts at epoch 0, and the
\* coordinating process had by then created the run directory anew.
C20_FreshRunStartsAtZero ==
    ~cfg.resume =>
        \A p \in Ranks :
            pc[p] \in AfterRestore =>
                /\ source[p] = "none"
                /\ restored[p] = -1
                /\ epochs_run[p] = 0
                /\ <<0, "mkdir">> \in writers

C20_Witness ==
    /\ distributed
    /\ ~cfg.resume
    /\ restarts = 1
    /\ prev_latest
    /\ <<0, "rmtree">> \in writers
    /\ \A d \in Dirs : fs[d].exists => fs[d].latest = NoSnap
    /\ \A p \in Ranks : pc[p] = "loop" /\ epochs_run[p] = 0

====
